---- MODULE Spec2Model ----
(***************************************************************************)
(* Model of ddw.py: the DeepinDailyWallpaper fetcher and its __main__.      *)
(*                                                                         *)
(* Text (URLs, paths, file names, method names) is a sequence of tokens:   *)
(* the separators "/", "?" and "_" are tokens of their own, so that        *)
(* urlparse, basename, rstrip, replace, rfind and the registry's regular   *)
(* expression are computed on the text as the code computes them.          *)
(* Time is counted in ticks, TicksPerDay of them to a day, so that an age  *)
(* can be a fraction of a day.                                             *)
(***************************************************************************)
EXTENDS Integers, Sequences, FiniteSets, TLC

\* ---------------------------------------------------------------- bounds
\* resolution of the clock: ticks per day
TicksPerDay == 2
\* the clock stops advancing at MaxTime ticks
MaxTime == 4
\* number of calls of run, over all launches
MaxRuns == 2
\* largest --clean value tried (the smallest is -1)
MaxClean == 1

\* ------------------------------------------------------------- text helpers
\* the empty text
Empty == <<>>

\* s[a..b] (1-based, inclusive), empty when a > b
Slice(s, a, b) == [i \in 1..(b - a + 1) |-> s[a + i - 1]]

\* index of the first occurrence of token t in s, 0 when there is none
IndexOf(s, t) ==
    IF \E i \in 1..Len(s) : s[i] = t
    THEN CHOOSE i \in 1..Len(s) : s[i] = t /\ \A j \in 1..(i - 1) : s[j] # t
    ELSE 0

\* str.rfind: index of the last occurrence of token t in s, 0 when there is none
RFind(s, t) ==
    IF \E i \in 1..Len(s) : s[i] = t
    THEN CHOOSE i \in 1..Len(s) : s[i] = t /\ \A j \in (i + 1)..Len(s) : s[j] # t
    ELSE 0

\* str.rstrip('/')
RECURSIVE RStripSlash(_)
RStripSlash(s) ==
    IF Len(s) > 0 /\ s[Len(s)] = "/" THEN RStripSlash(Slice(s, 1, Len(s) - 1)) ELSE s

\* str.replace("thumb/", ""): every "thumb" token followed by "/" is dropped
RECURSIVE StripThumb(_)
StripThumb(s) ==
    IF Len(s) = 0 THEN Empty
    ELSE IF Len(s) >= 2 /\ s[1] = "thumb" /\ s[2] = "/"
         THEN StripThumb(Slice(s, 3, Len(s)))
         ELSE <<s[1]>> \o StripThumb(Tail(s))

\* scheme://host prefixes, one token each
Origins == {"https://www.bing.com", "http://www.nationalgeographic.com",
            "https://upload.wikimedia.org", "https://apod.nasa.gov",
            "https://epod.usra.edu"}

\* urlparse(uri).path: without the scheme and host, up to the query
UrlPath(uri) ==
    LET rest == IF Len(uri) > 0 /\ uri[1] \in Origins THEN Tail(uri) ELSE uri
        q == IndexOf(rest, "?")
    IN IF q = 0 THEN rest ELSE Slice(rest, 1, q - 1)

\* os.path.basename: what follows the last "/"
Basename(p) == Slice(p, RFind(p, "/") + 1, Len(p))

\* DeepinDailyWallpaper._create_filename
CreateFilename(uri) == Basename(UrlPath(uri))

\* ------------------------------------------------------------ the registry
\* the routines of the class as inspect.getmembers lists them (sorted by name)
Methods ==
    << <<"_", "_", "init", "_", "_">>,
       <<"_", "create", "_", "filename">>,
       <<"_", "dbus", "_", "set">>,
       <<"_", "download", "_", "image">>,
       <<"_", "fetch", "_", "bing", "_", "wallpaper">>,
       <<"_", "fetch", "_", "epod", "_", "wallpaper">>,
       <<"_", "fetch", "_", "nasa", "_", "wallpaper">>,
       <<"_", "fetch", "_", "natgeo", "_", "wallpaper">>,
       <<"_", "fetch", "_", "wallpaper">>,
       <<"_", "fetch", "_", "wiki", "_", "wallpaper">>,
       <<"_", "set", "_", "wallpaper">>,
       <<"_", "soupify">>,
       <<"clean", "_", "up">>,
       <<"get", "_", "sources">>,
       <<"run">> >>

\* variant: ^_fetch_(\w*)_?wallpaper$, which _fetch_wallpaper matches too
PatternMatchLoose(m) ==
    /\ Len(m) >= 4
    /\ Slice(m, 1, 3) = <<"_", "fetch", "_">>
    /\ m[Len(m)] = "wallpaper"

\* pattern.match: ^_fetch_(\w+)_wallpaper$ (the group is at least one token)
PatternMatch(m) ==
    /\ Len(m) >= 6
    /\ Slice(m, 1, 3) = <<"_", "fetch", "_">>
    /\ Slice(m, Len(m) - 1, Len(m)) = <<"_", "wallpaper">>

\* pattern.sub(r'\1', name): the group alone
PatternSub(m) == Slice(m, 4, Len(m) - 2)

RECURSIVE SourcesOf(_)
SourcesOf(ms) ==
    IF Len(ms) = 0 THEN Empty
    ELSE IF PatternMatch(ms[1])
         THEN <<PatternSub(ms[1])>> \o SourcesOf(Tail(ms))
         ELSE SourcesOf(Tail(ms))

\* DeepinDailyWallpaper.get_sources
get_sources == SourcesOf(Methods)

\* the pseudo-source of the command line
AnySource == <<"any">>

\* argparse choices of --source
SourceChoices == {get_sources[i] : i \in 1..Len(get_sources)} \cup {AnySource}

\* argparse choices of --change
ChangeChoices == {"wallpaper", "greeter", "all"}

\* --clean values tried
CleanChoices == (-1)..MaxClean

\* '_fetch_%s_wallpaper' % source
MethodName(source) == <<"_", "fetch", "_">> \o source \o <<"_", "wallpaper">>

\* getattr(self, method) succeeds
HasMethod(m) == \E i \in 1..Len(Methods) : Methods[i] = m

\* ------------------------------------------------------- the source adapters
Ok(uri, name) == [err |-> "none", uri |-> uri, name |-> name]

\* raise: the step fails with the given error kind
Raise(kind) == [err |-> kind, uri |-> Empty, name |-> Empty]

\* what the selectors of an adapter find in a fetched document: the value of
\* the image element (hasImg = FALSE: the selector yields nothing) and, for
\* natgeo, the href of the canonical link
Doc(hasImg, img, hasCanon, canon) ==
    [hasImg |-> hasImg, img |-> img, hasCanon |-> hasCanon, canon |-> canon]

NoDoc == Doc(FALSE, Empty, FALSE, Empty)

FetchBing(doc) ==
    IF ~doc.hasImg THEN Raise("ImageNotFound")
    ELSE LET uri == <<"https://www.bing.com", "/">> \o doc.img \o <<"_1920x1080.jpg">>
             file_name == <<"https://www.bing.com", "/">> \o doc.img \o <<".jpg">>
         IN Ok(uri, CreateFilename(file_name))

FetchNatgeo(doc) ==
    IF ~doc.hasImg THEN Raise("ImageNotFound")
    ELSE IF ~doc.hasCanon THEN Raise("TypeError")
    ELSE LET uri == doc.img
             file_name == RStripSlash(UrlPath(doc.canon)) \o <<".jpg">>
         IN Ok(uri, CreateFilename(file_name))

FetchWiki(doc) ==
    IF ~doc.hasImg THEN Raise("ImageNotFound")
    ELSE LET stripped == StripThumb(doc.img)
             uri == Slice(stripped, 1, RFind(stripped, "/") - 1)
         IN Ok(uri, CreateFilename(uri))

FetchNasa(doc) ==
    IF ~doc.hasImg THEN Raise("ImageNotFound")
    ELSE LET uri == <<"https://apod.nasa.gov", "/", "apod", "/">> \o doc.img
         IN Ok(uri, CreateFilename(uri))

FetchEpod(doc) ==
    IF ~doc.hasImg THEN Raise("ImageNotFound")
    ELSE LET uri == doc.img
             file_name == CreateFilename(uri \o <<".jpg">>)
         IN Ok(uri, file_name)

\* getattr(self, method)(): the adapter's work on the parsed document
Adapter(method, doc) ==
    CASE method = MethodName(<<"bing">>)   -> FetchBing(doc)
      [] method = MethodName(<<"natgeo">>) -> FetchNatgeo(doc)
      [] method = MethodName(<<"wiki">>)   -> FetchWiki(doc)
      [] method = MethodName(<<"nasa">>)   -> FetchNasa(doc)
      [] method = MethodName(<<"epod">>)   -> FetchEpod(doc)
      [] OTHER                             -> Raise("AttributeError")

\* the document each adapter fetches
SourceUrl(method) ==
    CASE method = MethodName(<<"bing">>) ->
            <<"https://www.bing.com", "/", "HPImageArchive.aspx", "?", "format=xml&idx=0&n=1&mkt=en-US">>
      [] method = MethodName(<<"natgeo">>) ->
            <<"http://www.nationalgeographic.com", "/", "photography", "/", "photo-of-the-day", "/">>
      [] method = MethodName(<<"wiki">>) ->
            <<"https://commons.wikimedia.org", "/", "wiki", "/", "Main_Page">>
      [] method = MethodName(<<"nasa">>) ->
            <<"https://apod.nasa.gov", "/", "apod", "/">>
      [] method = MethodName(<<"epod">>) ->
            <<"https://epod.usra.edu", "/", "blog", "/">>
      [] OTHER -> Empty

\* the documents a source may serve: one with today's image, for bing one with
\* another day's image (a different URL), and documents in which a selector
\* finds nothing
Docs(method) ==
    CASE method = MethodName(<<"bing">>) ->
            { Doc(TRUE, <<"/", "th", "?", "id=OHR.A">>, FALSE, Empty),
              Doc(TRUE, <<"/", "th", "?", "id=OHR.B">>, FALSE, Empty),
              NoDoc }
      [] method = MethodName(<<"natgeo">>) ->
            { Doc(TRUE, <<"http://www.nationalgeographic.com", "/", "img", "/", "n1.jpg">>,
                  TRUE, <<"http://www.nationalgeographic.com", "/", "pod", "/", "day1", "/">>),
              Doc(TRUE, <<"http://www.nationalgeographic.com", "/", "img", "/", "n1.jpg">>,
                  FALSE, Empty),
              NoDoc }
      [] method = MethodName(<<"wiki">>) ->
            { Doc(TRUE, <<"https://upload.wikimedia.org", "/", "thumb", "/", "a", "/",
                          "F.jpg", "/", "500px-F.jpg">>, FALSE, Empty),
              NoDoc }
      [] method = MethodName(<<"nasa">>) ->
            { Doc(TRUE, <<"image", "/", "2401", "/", "x.jpg">>, FALSE, Empty),
              NoDoc }
      [] method = MethodName(<<"epod">>) ->
            { Doc(TRUE, <<"https://epod.usra.edu", "/", "e1">>, FALSE, Empty),
              NoDoc }
      [] OTHER -> { NoDoc }

\* ------------------------------------------------------------------ state
VARIABLES
    pc,        \* position of the process: idle (not running), constructed,
               \* download, apply_background, apply_greeter, ran, exited, failed
    source,    \* self._source
    change,    \* self._change
    clean,     \* self._clean
    dir,       \* the storage directory: [exists, mtime]
    fs,        \* the regular files of the storage directory: name -> [mtime, content]
    now,       \* the clock, in ticks
    runs,      \* calls of run so far, over all launches
    method,    \* the adapter _fetch_wallpaper dispatched to
    doc,       \* what the adapter's selectors find in the fetched document
    status,    \* status code of the last HTTP response of this run (0: none yet)
    uri,       \* the image reference: remote URL
    name,      \* the image reference: derived file name
    path,      \* what _download_image returned
    requests,  \* the HTTP GETs of this run, in order
    calls,     \* the Set calls made on the appearance service in this run, in order
    err,       \* the error raised, "none" when there is none
    cleaned    \* clean_up was called in this process

vars == <<pc, source, change, clean, dir, fs, now, runs, method, doc, status,
          uri, name, path, requests, calls, err, cleaned>>

config == <<source, change, clean>>
disk == <<dir, fs>>
reference == <<method, doc, uri, name>>

\* status code of a successful response
HttpOk == 200
\* a status code of a failed response
HttpNotFound == 404

Statuses == {HttpOk, HttpNotFound}

\* self._storage_path
StoragePath == "storage_path"

\* path.join(self._storage_path, name)
OutputFile(n) == <<StoragePath, "/">> \o n

\* pathlib.Path(output_file).exists(), for a path under the storage directory
PathExists(d, f, p) == d.exists /\ (Len(p) = 2 \/ Slice(p, 3, Len(p)) \in DOMAIN f)

\* open(output_file, 'wb') and the streamed writes: a file modified now, holding
\* what the URL served
WriteFile(f, n, t, u) ==
    [m \in DOMAIN f \cup {n} |-> IF m = n THEN [mtime |-> t, content |-> u] ELSE f[m]]

NoDir == [exists |-> FALSE, mtime |-> 0]

\* pathlib.Path(self._storage_path).mkdir(parents=True, exist_ok=True)
Mkdir(d, t) == IF d.exists THEN d ELSE [exists |-> TRUE, mtime |-> t]

\* variant: no look at the disk, the image is fetched and written every time
DownloadImageAlways(d, f, t, u, n, st) ==
    IF st # HttpOk
    THEN [err |-> "DownloadError", path |-> Empty, dir |-> d, fs |-> f, gets |-> <<u>>,
          status |-> st]
    ELSE IF ~d.exists
    THEN [err |-> "FileNotFoundError", path |-> Empty, dir |-> d, fs |-> f,
          gets |-> <<u>>, status |-> st]
    ELSE [err |-> "none", path |-> OutputFile(n),
          dir |-> [d EXCEPT !.mtime = t], fs |-> WriteFile(f, n, t, u),
          gets |-> <<u>>, status |-> st]

\* variant: the file is opened for writing before the status is looked at
DownloadImageOpenFirst(d, f, t, u, n, st) ==
    LET output_file == OutputFile(n)
    IN IF PathExists(d, f, output_file)
       THEN [err |-> "none", path |-> output_file, dir |-> d, fs |-> f, gets |-> <<>>,
             status |-> 0]
       ELSE IF ~d.exists
       THEN [err |-> "FileNotFoundError", path |-> Empty, dir |-> d, fs |-> f,
             gets |-> <<u>>, status |-> st]
       ELSE IF st # HttpOk
       THEN [err |-> "DownloadError", path |-> Empty,
             dir |-> [d EXCEPT !.mtime = t], fs |-> WriteFile(f, n, t, Empty),
             gets |-> <<u>>, status |-> st]
       ELSE [err |-> "none", path |-> output_file,
             dir |-> [d EXCEPT !.mtime = t], fs |-> WriteFile(f, n, t, u),
             gets |-> <<u>>, status |-> st]

\* DeepinDailyWallpaper._download_image on the disk (d, f) at time t, the
\* remote answering with status st: the error raised, the path returned, the
\* disk afterwards and the GETs made
DownloadImage(d, f, t, u, n, st) ==
    LET output_file == OutputFile(n)
    IN IF PathExists(d, f, output_file)
       THEN [err |-> "none", path |-> output_file, dir |-> d, fs |-> f, gets |-> <<>>,
             status |-> 0]
       ELSE IF st # HttpOk
       THEN [err |-> "DownloadError", path |-> Empty, dir |-> d, fs |-> f, gets |-> <<u>>,
             status |-> st]
       ELSE IF ~d.exists
       THEN [err |-> "FileNotFoundError", path |-> Empty, dir |-> d, fs |-> f,
             gets |-> <<u>>, status |-> st]
       ELSE [err |-> "none", path |-> output_file,
             dir |-> [d EXCEPT !.mtime = t], fs |-> WriteFile(f, n, t, u),
             gets |-> <<u>>, status |-> st]

\* find's -mtime +N: the age in whole days, the fraction dropped, exceeds N
OlderThan(mtime, t, n) == (t - mtime) \div TicksPerDay > n

\* system('find <storage_path> -mtime +<clean> -delete'): depth first, every
\* entry that matches is deleted, the starting directory included when it
\* matches (by its modification time as find saw it on the way down) and is
\* empty by then
Find(d, f, t, n) ==
    IF ~d.exists THEN [dir |-> d, fs |-> f]
    ELSE LET kept == {m \in DOMAIN f : ~OlderThan(f[m].mtime, t, n)}
             left == [m \in kept |-> f[m]]
         IN IF OlderThan(d.mtime, t, n) /\ kept = {}
            THEN [dir |-> NoDir, fs |-> left]
            ELSE [dir |-> IF kept # DOMAIN f THEN [d EXCEPT !.mtime = t] ELSE d,
                  fs |-> left]

\* DeepinDailyWallpaper.clean_up
CleanUpResult(d, f, t, n) ==
    IF n <= 0 THEN [dir |-> d, fs |-> f] ELSE Find(d, f, t, n)

\* DeepinDailyWallpaper._dbus_set: one Set call on the appearance service, and
\* whether the service accepted it
DbusSet(which, p, ok) == [key |-> which, value |-> p, ok |-> ok]

\* _set_wallpaper's first condition
SetsBackground(c) == c = "wallpaper" \/ c = "all"

\* variant: the greeter is changed for "greeter" alone
SetsGreeterOnly(c) == c = "greeter"

\* _set_wallpaper's second condition
SetsGreeter(c) == c = "greeter" \/ c = "all"

\* variant: the error is caught and the process goes on as if run had returned
Caught == "ran"

\* an error nobody catches ends the process before its next statement
Uncaught == "failed"

\* ----------------------------------------------------------------- actions
Init ==
    /\ pc = "idle"
    /\ source \in SourceChoices
    /\ change \in ChangeChoices
    /\ clean \in CleanChoices
    /\ dir = NoDir
    /\ fs = << >>
    /\ now = 0
    /\ runs = 0
    /\ method = Empty
    /\ doc = NoDoc
    /\ status = 0
    /\ uri = Empty
    /\ name = Empty
    /\ path = Empty
    /\ requests = << >>
    /\ calls = << >>
    /\ err = "none"
    /\ cleaned = FALSE

\* time passes between two launches (the clock starts at the first launch)
Tick ==
    /\ pc = "idle"
    /\ runs > 0
    /\ now < MaxTime
    /\ now' = now + 1
    /\ UNCHANGED <<pc, config, disk, runs, reference, status, path, requests,
                   calls, err, cleaned>>

\* __main__ up to the constructor: the scheduler launches the program with its
\* command line (source, change, clean: the same at every launch) and the
\* fetcher is constructed, which creates the storage directory
Construct ==
    /\ pc = "idle"
    /\ runs < MaxRuns
    /\ dir' = Mkdir(dir, now)
    /\ pc' = "constructed"
    /\ UNCHANGED <<config, fs, now, runs, reference, status, path, requests, calls, err,
                   cleaned>>

\* run, first half: _fetch_wallpaper picks the adapter, which fetches its
\* document (_soupify) and extracts the image reference
FetchWallpaper ==
    /\ pc = "constructed"
    /\ runs < MaxRuns
    /\ runs' = runs + 1
    /\ \E i \in 1..Len(get_sources), st \in Statuses :
          LET src == IF source = AnySource THEN get_sources[i] ELSE source
              m == MethodName(src)
          IN /\ method' = m
             /\ calls' = << >>
             /\ path' = Empty
             /\ IF ~HasMethod(m)
                THEN /\ err' = "AttributeError"
                     /\ pc' = Uncaught
                     /\ requests' = << >>
                     /\ status' = 0
                     /\ doc' = NoDoc
                     /\ uri' = Empty
                     /\ name' = Empty
                ELSE /\ requests' = <<SourceUrl(m)>>
                     /\ status' = st
                     /\ IF st # HttpOk
                        THEN /\ err' = "FetchError"
                             /\ pc' = Uncaught
                             /\ doc' = NoDoc
                             /\ uri' = Empty
                             /\ name' = Empty
                        ELSE \E d \in Docs(m) :
                                LET r == Adapter(m, d)
                                IN /\ doc' = d
                                   /\ err' = r.err
                                   /\ uri' = r.uri
                                   /\ name' = r.name
                                   /\ pc' = IF r.err = "none" THEN "download" ELSE Uncaught
    /\ UNCHANGED <<config, disk, now, cleaned>>

\* run, the adapter's last statement: _download_image
Download ==
    /\ pc = "download"
    /\ \E st \in Statuses :
          LET r == DownloadImage(dir, fs, now, uri, name, st)
          IN /\ requests' = requests \o r.gets
             /\ status' = IF r.gets = << >> THEN status ELSE r.status
             /\ dir' = r.dir
             /\ fs' = r.fs
             /\ path' = r.path
             /\ err' = r.err
             /\ pc' = IF r.err = "none" THEN "apply_background" ELSE Uncaught
    /\ UNCHANGED <<config, now, runs, reference, calls, cleaned>>

\* _set_wallpaper, first statement: the Set call for "background", which the
\* appearance service may refuse
SetBackground ==
    /\ pc = "apply_background"
    /\ IF SetsBackground(change)
       THEN \E ok \in BOOLEAN :
               /\ calls' = Append(calls, DbusSet("background", path, ok))
               /\ err' = IF ok THEN "none" ELSE "DBusException"
               /\ pc' = IF ok THEN "apply_greeter" ELSE Uncaught
       ELSE /\ pc' = "apply_greeter"
            /\ UNCHANGED <<calls, err>>
    /\ UNCHANGED <<config, disk, now, runs, reference, status, path, requests,
                   cleaned>>

\* _set_wallpaper, second statement: the Set call for "greeterbackground"
SetGreeter ==
    /\ pc = "apply_greeter"
    /\ IF SetsGreeter(change)
       THEN \E ok \in BOOLEAN :
               /\ calls' = Append(calls, DbusSet("greeterbackground", path, ok))
               /\ err' = IF ok THEN "none" ELSE "DBusException"
               /\ pc' = IF ok THEN "ran" ELSE Uncaught
       ELSE /\ pc' = "ran"
            /\ UNCHANGED <<calls, err>>
    /\ UNCHANGED <<config, disk, now, runs, reference, status, path, requests,
                   cleaned>>

\* __main__'s last statement: clean_up, after run has returned
CleanUp ==
    /\ pc = "ran"
    /\ LET r == CleanUpResult(dir, fs, now, clean)
       IN /\ dir' = r.dir
          /\ fs' = r.fs
    /\ cleaned' = TRUE
    /\ pc' = "exited"
    /\ UNCHANGED <<config, now, runs, reference, status, path, requests, calls, err>>

\* the process is gone: only the disk is left of it
Exit ==
    /\ pc \in {"exited", "failed"}
    /\ pc' = "idle"
    /\ method' = Empty
    /\ doc' = NoDoc
    /\ status' = 0
    /\ uri' = Empty
    /\ name' = Empty
    /\ path' = Empty
    /\ requests' = << >>
    /\ calls' = << >>
    /\ err' = "none"
    /\ cleaned' = FALSE
    /\ UNCHANGED <<config, disk, now, runs>>

Next ==
    \/ Tick
    \/ Construct
    \/ FetchWallpaper
    \/ Download
    \/ SetBackground
    \/ SetGreeter
    \/ CleanUp
    \/ Exit

\* the program: launched again and again, each launch running __main__
Spec == Init /\ [][Next]_vars

\* a caller that keeps the fetcher and calls clean_up before a run
CleanUpFirst ==
    /\ pc = "constructed"
    /\ LET r == CleanUpResult(dir, fs, now, clean)
       IN /\ dir' = r.dir
          /\ fs' = r.fs
    /\ cleaned' = TRUE
    /\ UNCHANGED <<pc, config, now, runs, reference, status, path, requests, calls,
                   err>>

\* a caller that keeps the fetcher after run returned or raised, for another call
Again ==
    /\ pc \in {"ran", "failed"}
    /\ err # "FileNotFoundError"
    /\ pc' = "constructed"
    /\ err' = "none"
    /\ UNCHANGED <<config, disk, now, runs, reference, status, path, requests,
                   calls, cleaned>>

NextAny ==
    \/ Next
    \/ CleanUpFirst
    \/ Again

\* the fetcher as an object: constructed, then any sequence of run and clean_up
SpecAny == Init /\ [][NextAny]_vars

\* ------------------------------------------------------------------ claims
\* the five source names
FiveSources == { <<"bing">>, <<"natgeo">>, <<"wiki">>, <<"nasa">>, <<"epod">> }

RegistrySet == {get_sources[i] : i \in 1..Len(get_sources)}

\* s is a prefix of t
IsPrefix(s, t) == Len(s) <= Len(t) /\ \A i \in 1..Len(s) : s[i] = t[i]

\* the (key, value) pairs of the Set calls made
CallPairs == [i \in 1..Len(calls) |-> <<calls[i].key, calls[i].value>>]

\* the Set calls the change selector asks for, on path p
ExpectedPairs(c, p) ==
    CASE c = "wallpaper" -> << <<"background", p>> >>
      [] c = "greeter"   -> << <<"greeterbackground", p>> >>
      [] c = "all"       -> << <<"background", p>>, <<"greeterbackground", p>> >>

\* the errors of the fetch, extract and download steps
FetchErrors == {"AttributeError", "FetchError", "ImageNotFound", "TypeError",
                "DownloadError", "FileNotFoundError"}

\* C1: when a file already exists at storage_path/filename, _download_image
\* makes no HTTP request, leaves the disk as it is and returns that path; a
\* second call in a row with the same arguments returns the same path with no
\* request and no change to the disk.
C1_DownloadIdempotent ==
    \A n \in DOMAIN fs \cup {name} :
      \A u \in {uri} :
        \A s1 \in Statuses, s2 \in Statuses :
          LET r1 == DownloadImage(dir, fs, now, u, n, s1)
              r2 == DownloadImage(r1.dir, r1.fs, now, u, n, s2)
          IN /\ PathExists(dir, fs, OutputFile(n)) =>
                  /\ r1.err = "none"
                  /\ r1.gets = << >>
                  /\ r1.fs = fs
                  /\ r1.dir = dir
                  /\ r1.path = OutputFile(n)
             /\ r1.err = "none" =>
                  /\ r2.err = "none"
                  /\ r2.path = r1.path
                  /\ r2.gets = << >>
                  /\ r2.fs = r1.fs

\* C1's case: a run whose download step found the file of an earlier launch
\* and returned it after the document's GET alone
C1_Witness ==
    /\ pc = "apply_background"
    /\ Len(requests) = 1
    /\ name \in DOMAIN fs
    /\ fs[name].mtime < now
    /\ path = OutputFile(name)

\* C3: the Set calls of a run are those the change selector asks for, in that
\* order and each with the path the download step returned: at every moment a
\* prefix of them, and all of them once _set_wallpaper has returned.
C3_SetCallsByChange ==
    /\ IsPrefix(CallPairs, ExpectedPairs(change, path))
    /\ pc \in {"ran", "exited"} =>
          /\ CallPairs = ExpectedPairs(change, path)
          /\ path = OutputFile(name)

\* C3's case: change=all, both calls made
C3_Witness ==
    /\ pc = "ran"
    /\ change = "all"
    /\ Len(calls) = 2
    /\ calls[1].key = "background"
    /\ calls[2].key = "greeterbackground"

\* C4: a response other than 200, to the document fetch or to the image
\* download, raises the step's error, and the step that raises it leaves the
\* storage directory and its files as they were.
C4_NoMutationOnHttpError ==
    /\ [](status \notin {0, HttpOk} =>
            pc = "failed" /\ err \in {"FetchError", "DownloadError"})
    /\ [][(err = "none" /\ err' \in {"FetchError", "DownloadError"}) =>
            (fs' = fs /\ dir' = dir)]_vars

\* C4's case: the image download answered 404 for a file not on the disk
C4_Witness ==
    /\ pc = "failed"
    /\ err = "DownloadError"
    /\ status = HttpNotFound
    /\ Len(requests) = 2
    /\ name \notin DOMAIN fs

\* C5: the process stops at the first failure: after a failed fetch, extract
\* or download no Set call is made and clean_up is not called; a failed Set
\* call is the last one and clean_up is not called after it.
C5_AbortOnFirstFailure ==
    /\ err \in FetchErrors => (calls = << >> /\ ~cleaned /\ pc = "failed")
    /\ \A i \in 1..Len(calls) :
          ~calls[i].ok => (i = Len(calls) /\ ~cleaned /\ pc = "failed")
    /\ cleaned => (err = "none" /\ CallPairs = ExpectedPairs(change, path))

\* C5's case: change=all and the first Set call failed
C5_Witness ==
    /\ pc = "failed"
    /\ change = "all"
    /\ Len(calls) = 1
    /\ ~calls[1].ok
    /\ err = "DBusException"

\* C8: the registry lists exactly bing, natgeo, wiki, nasa and epod; "any" is a
\* choice of the command line and not of the registry; whatever the source, a
\* run dispatches to one of the five adapters, which exists.
C8_RegistryAndDispatch ==
    /\ RegistrySet = FiveSources
    /\ AnySource \notin RegistrySet
    /\ AnySource \in SourceChoices
    /\ source \in SourceChoices
    /\ method # Empty =>
          /\ method \in {MethodName(s) : s \in FiveSources}
          /\ HasMethod(method)
          /\ err # "AttributeError"
          /\ source # AnySource => method = MethodName(source)

\* C8's case: source "any" resolved to an adapter, which returned a reference
C8_Witness ==
    /\ source = AnySource
    /\ pc = "download"
    /\ method = MethodName(<<"wiki">>)

\* C2 (as claimed): clean_up removes a file if and only if clean > 0 and the
\* file was modified strictly more than clean days ago, and leaves the storage
\* directory in place.
C2_CleanupExact ==
    [][(cleaned' /\ ~cleaned) =>
          /\ dir'.exists = dir.exists
          /\ \A n \in DOMAIN fs :
                (n \notin DOMAIN fs') <=>
                    (clean > 0 /\ now - fs[n].mtime > clean * TicksPerDay)]_vars

\* the selectors an adapter relies on, one of which finds nothing in the document
SelectorMissing(m, d) ==
    \/ ~d.hasImg
    \/ (m = MethodName(<<"natgeo">>) /\ ~d.hasCanon)

\* C6 (as claimed): an adapter whose document lacks an element it selects fails
\* with "Image not found", and requests no image.
C6_ImageNotFound ==
    (/\ method # Empty
     /\ err \notin {"FetchError", "AttributeError"}
     /\ SelectorMissing(method, doc)) =>
        (err = "ImageNotFound" /\ Len(requests) = 1)

\* C7 (as claimed): the storage directory exists whenever the download step
\* opens a file for writing.
C7_DirExistsAtWrite == err # "FileNotFoundError"

\* C9 (as claimed): after run and clean_up, the file handed to the appearance
\* service still exists.
C9_AppliedSurvivesCleanup ==
    (pc = "exited" /\ calls # << >>) => PathExists(dir, fs, calls[1].value)

\* C10 (as claimed): the file the download step returns for URL u was written
\* by a download of u.
C10_CacheMatchesUrl ==
    (pc \in {"apply_background", "apply_greeter", "ran"} /\ name \in DOMAIN fs) =>
        fs[name].content = uri

====
